---- MODULE Spec2Model ----
(***************************************************************************)
(* Model of download_data.py: for each of two fixed dataset names the      *)
(* script GETs a URL, parses the response text with json.loads,            *)
(* re-serialises it with json.dumps(indent=2) and writes the text to       *)
(* data/<name>.json.                                                       *)
(*                                                                         *)
(* Text (a response body, a file's contents) is a sequence of lexemes.     *)
(* json.loads and json.dumps are modelled by what CPython's json module    *)
(* does on such text: whitespace is skipped, numbers are read as int or    *)
(* IEEE double and written with repr, NaN/Infinity are accepted and        *)
(* written, a repeated object key keeps its first position and its last    *)
(* value, strings are written in their shortest escaped form.              *)
(***************************************************************************)
EXTENDS Integers, Sequences, FiniteSets, TLC

(***************************************************************************)
(* Lexemes                                                                 *)
(***************************************************************************)
WS == {" ", "\n"}

StringTokens == {"\"a\"", "\"b\"", "\"\\/\"", "\"/\""}

IntTokens == {"1"}

FloatTokens == {"1E2", "100.0", "1e999"}

LiteralTokens == {"true", "null"}

\* the names json.loads hands to parse_constant (float) by default
PyConstants == {"NaN", "Infinity"}

\* the characters a JSON string lexeme stands for
StrVal(tok) ==
    CASE tok = "\"a\"" -> "a"
      [] tok = "\"b\"" -> "b"
      [] tok = "\"\\/\"" -> "/"
      [] tok = "\"/\"" -> "/"

\* json.dumps of a str (ensure_ascii): '/' is not escaped
EncodeStr(s) ==
    CASE s = "a" -> "\"a\""
      [] s = "b" -> "\"b\""
      [] s = "/" -> "\"/\""

\* float(lexeme) as CPython reads it, named by repr(): a double overflows to inf
PyFloat(tok) ==
    CASE tok = "1E2" -> "100.0"
      [] tok = "100.0" -> "100.0"
      [] tok = "1e999" -> "inf"
      [] tok = "Infinity" -> "inf"
      [] tok = "NaN" -> "nan"

\* the number a JSON number lexeme denotes (RFC 8259 reading)
MathNum(tok) ==
    CASE tok = "1" -> "1"
      [] tok = "1E2" -> "100"
      [] tok = "100.0" -> "100"
      [] tok = "1e999" -> "10^999"

\* floatstr without its special cases: repr for every float
FloatStr_repr(f) == f

\* json.encoder's floatstr: repr except for nan / inf (allow_nan defaults to True)
FloatStr(f) ==
    CASE f = "inf" -> "Infinity"
      [] f = "nan" -> "NaN"
      [] OTHER -> f

(***************************************************************************)
(* Values: one record shape for every kind, so that any two compare.       *)
(*   t = "str" | "int" | "float" | "num" | "lit" | "list" | "dict" | "pair"*)
(***************************************************************************)
Scalar(t, s) == [t |-> t, s |-> s, items |-> <<>>]

Pair(k, v) == [t |-> "pair", s |-> k, items |-> <<v>>]

NoVal == Scalar("none", "")

\* the reading of a number lexeme: "python" = json.loads, "rfc" = the number denoted
NumberValue(tok, dialect) ==
    IF dialect = "rfc" THEN Scalar("num", MathNum(tok))
    ELSE IF tok \in IntTokens THEN Scalar("int", tok)
    ELSE Scalar("float", PyFloat(tok))

ConstantsOf(dialect) == IF dialect = "python" THEN PyConstants ELSE {}

RECURSIVE SkipWs(_, _)
SkipWs(toks, i) ==
    IF i <= Len(toks) /\ toks[i] \in WS THEN SkipWs(toks, i + 1) ELSE i

\* dict(pairs): a repeated key keeps its first position and takes the last value
RECURSIVE DictSet(_, _, _)
DictSet(items, k, v) ==
    IF items = <<>> THEN <<Pair(k, v)>>
    ELSE IF Head(items).s = k THEN <<Pair(k, v)>> \o Tail(items)
    ELSE <<Head(items)>> \o DictSet(Tail(items), k, v)

Fail == [ok |-> FALSE, v |-> NoVal, next |-> 0]

Ok(v, next) == [ok |-> TRUE, v |-> v, next |-> next]

RECURSIVE scan_once(_, _, _)
RECURSIVE JSONArray(_, _, _, _)
RECURSIVE JSONObject(_, _, _, _)

\* json.scanner scan_once: the value starting at toks[i]
scan_once(toks, i, dialect) ==
    IF i > Len(toks) THEN Fail
    ELSE LET tok == toks[i] IN
         CASE tok \in StringTokens -> Ok(Scalar("str", StrVal(tok)), i + 1)
           [] tok \in IntTokens \cup FloatTokens -> Ok(NumberValue(tok, dialect), i + 1)
           [] tok \in LiteralTokens -> Ok(Scalar("lit", tok), i + 1)
           [] tok \in ConstantsOf(dialect) -> Ok(Scalar("float", PyFloat(tok)), i + 1)
           [] tok = "[" ->
                LET j == SkipWs(toks, i + 1) IN
                IF j <= Len(toks) /\ toks[j] = "]"
                THEN Ok([t |-> "list", s |-> "", items |-> <<>>], j + 1)
                ELSE JSONArray(toks, j, dialect, <<>>)
           [] tok = "{" ->
                LET j == SkipWs(toks, i + 1) IN
                IF j <= Len(toks) /\ toks[j] = "}"
                THEN Ok([t |-> "dict", s |-> "", items |-> <<>>], j + 1)
                ELSE JSONObject(toks, j, dialect, <<>>)
           [] OTHER -> Fail

\* json.decoder JSONArray, from the first element on: value (',' value)* ']'
JSONArray(toks, i, dialect, acc) ==
    LET r == scan_once(toks, i, dialect) IN
    IF ~r.ok THEN Fail
    ELSE LET j == SkipWs(toks, r.next)
             vals == Append(acc, r.v) IN
         IF j > Len(toks) THEN Fail
         ELSE IF toks[j] = "]" THEN Ok([t |-> "list", s |-> "", items |-> vals], j + 1)
         ELSE IF toks[j] = "," THEN JSONArray(toks, SkipWs(toks, j + 1), dialect, vals)
         ELSE Fail

\* json.decoder JSONObject, from the first key on: key ':' value (',' key ':' value)* '}'
JSONObject(toks, i, dialect, acc) ==
    IF i > Len(toks) \/ toks[i] \notin StringTokens THEN Fail
    ELSE LET c == SkipWs(toks, i + 1) IN
         IF c > Len(toks) \/ toks[c] # ":" THEN Fail
         ELSE LET r == scan_once(toks, SkipWs(toks, c + 1), dialect) IN
              IF ~r.ok THEN Fail
              ELSE LET j == SkipWs(toks, r.next)
                       pairs == DictSet(acc, StrVal(toks[i]), r.v) IN
                   IF j > Len(toks) THEN Fail
                   ELSE IF toks[j] = "}"
                        THEN Ok([t |-> "dict", s |-> "", items |-> pairs], j + 1)
                   ELSE IF toks[j] = ","
                        THEN JSONObject(toks, SkipWs(toks, j + 1), dialect, pairs)
                   ELSE Fail

\* JSONDecoder.decode: leading whitespace, one value, trailing whitespace, end of text
decode(toks, dialect) ==
    LET r == scan_once(toks, SkipWs(toks, 1), dialect) IN
    IF r.ok /\ SkipWs(toks, r.next) = Len(toks) + 1 THEN Ok(r.v, r.next) ELSE Fail

\* json.loads(text): ok = FALSE stands for JSONDecodeError
loads(text) == decode(text, "python")

\* text is a JSON document in the sense of RFC 8259
IsJSON(text) == decode(text, "rfc").ok

\* the value an RFC 8259 document denotes
JSONValue(text) == decode(text, "rfc").v

(***************************************************************************)
(* json.dumps(obj, indent=2)                                               *)
(***************************************************************************)
Indent == 2

RECURSIVE Spaces(_)
Spaces(n) == IF n = 0 THEN <<>> ELSE <<" ">> \o Spaces(n - 1)

\* json.encoder newline_indent at nesting depth level
NewlineIndent(level) == <<"\n">> \o Spaces(level * Indent)

RECURSIVE iterencode(_, _)
RECURSIVE iterencode_items(_, _)

\* json.encoder iterencode (with iterencode_list and iterencode_dict)
iterencode(o, level) ==
    CASE o.t = "str" -> <<EncodeStr(o.s)>>
      [] o.t = "int" -> <<o.s>>
      [] o.t = "float" -> <<FloatStr(o.s)>>
      [] o.t = "lit" -> <<o.s>>
      [] o.t = "list" ->
           IF o.items = <<>> THEN <<"[", "]">>
           ELSE <<"[">> \o NewlineIndent(level + 1) \o iterencode_items(o.items, level + 1)
                \o NewlineIndent(level) \o <<"]">>
      [] o.t = "dict" ->
           IF o.items = <<>> THEN <<"{", "}">>
           ELSE <<"{">> \o NewlineIndent(level + 1) \o iterencode_items(o.items, level + 1)
                \o NewlineIndent(level) \o <<"}">>
      [] o.t = "pair" -> <<EncodeStr(o.s), ":", " ">> \o iterencode(o.items[1], level)

\* the elements or members of a container, separated by ',' and a newline_indent
iterencode_items(items, level) ==
    IF Len(items) = 1 THEN iterencode(items[1], level)
    ELSE iterencode(Head(items), level) \o <<",">> \o NewlineIndent(level)
         \o iterencode_items(Tail(items), level)

dumps(obj) == iterencode(obj, 0)

(***************************************************************************)
(* The world the script runs in                                            *)
(***************************************************************************)
Filenames == <<"ne_10m_admin_0_countries_lakes", "ne_10m_admin_1_states_provinces">>

\* the f-string of the request
UrlOf(name) ==
    "https://raw.githubusercontent.com/nvkelso/natural-earth-vector/master/geojson/"
        \o name \o ".geojson"

\* an output path that does not interpolate the name
PathOf_fixed(name) == "data/other.json"

\* the f-string of the output path
PathOf(name) == "data/" \o name \o ".json"

Urls == {UrlOf(Filenames[k]) : k \in 1..Len(Filenames)}

\* the two files the script is there to produce
OutputPaths ==
    {"data/ne_10m_admin_0_countries_lakes.json", "data/ne_10m_admin_1_states_provinces.json"}

\* two files the script has no business with, one of them inside data/
OtherPaths == {"data/other.json", "README.md"}

AllPaths == OutputPaths \cup OtherPaths

InData(path) == path \in OutputPaths \cup {"data/other.json"}

\* response bodies the endpoint may serve
Bodies ==
    { <<"{", "}">>,
      <<"{", "\"a\"", ":", "1", ",", "\"b\"", ":", "true", ",", "\"a\"", ":", "null", "}">>,
      <<"[", "1E2", ",", " ", "\"\\/\"", "]">>,
      <<" ", "{", "\"a\"", ":", "{", "\"b\"", ":", "[", "1", ",", "100.0", "]", "}", "}", "\n">>,
      <<"[", "\n", " ", " ", "1", "\n", "]">>,
      <<"[", "1e999", "]">>,
      <<"NaN">>,
      <<"404: Not Found">>,
      <<>>,
      <<"[", "1", ",", "]">>,
      <<"{", "}", "{", "}">> }

\* bodies served with an error status: an error page, and an error document in JSON
ErrorBodies == { <<"404: Not Found">>, <<"{", "\"a\"", ":", "null", "}">> }

Response(status_code, text) == [kind |-> "Response", status_code |-> status_code, text |-> text]

\* requests.get raising (ConnectionError, Timeout, ...) instead of returning
ConnectionError == [kind |-> "ConnectionError", status_code |-> 0, text |-> <<>>]

NoData == [kind |-> "None", status_code |-> 0, text |-> <<>>]

Responses ==
    {ConnectionError} \cup {Response(200, b) : b \in Bodies}
        \cup {Response(404, b) : b \in ErrorBodies}

Absent == [exists |-> FALSE, text |-> <<>>]

File(text) == [exists |-> TRUE, text |-> text]

\* what an output file may hold before the first run
OldFiles == {Absent, File(<<"[", "1", "]">>)}

OtherFile == File(<<"\"b\"">>)

(***************************************************************************)
(* State                                                                   *)
(***************************************************************************)
VARIABLES
    filenames,   \* the module-level list
    remote,      \* what the endpoint serves at each URL
    dirExists,   \* whether data/ exists
    unwritable,  \* output paths that cannot be opened for writing
    fs,          \* the contents of every path
    pc,          \* "get", "loads", "write", "done" (exit 0) or "failed" (traceback, exit 1)
    i,           \* position of the for loop in filenames
    data,        \* the response bound by line 7
    obj,         \* the value json.loads returned
    run,         \* number of the current invocation of the script
    log,         \* the steps of the current invocation, in order
    fs0,         \* the contents of every path when the current invocation started
    prev         \* outcome of the previous invocation, if the endpoint is unchanged since

vars == <<filenames, remote, dirExists, unwritable, fs, pc, i, data, obj, run, log, fs0, prev>>

\* number of invocations of the script in a row
MaxRuns == 2

Event(op, arg) == [op |-> op, arg |-> arg]

\* prev after a failed invocation (and before the first one)
NoPrev == [ok |-> FALSE, changed |-> FALSE, fs |-> [p \in AllPaths |-> Absent]]

\* prev once the endpoint has changed since the previous invocation
RemoteChanged == [ok |-> FALSE, changed |-> TRUE, fs |-> [p \in AllPaths |-> Absent]]

\* the loop walking the list from its end
filename_reversed == filenames[Len(filenames) + 1 - i]

\* the loop variable of line 6
filename == filenames[i]

Init ==
    /\ filenames = Filenames
    /\ remote \in [Urls -> Responses]
    /\ dirExists \in BOOLEAN
    /\ unwritable \in {{}} \cup {{p} : p \in OutputPaths}
    /\ dirExists = FALSE => unwritable = {}
    /\ fs \in [AllPaths -> OldFiles \cup {OtherFile}]
    /\ fs["README.md"] = OtherFile
    /\ \A p \in OtherPaths : fs[p] = IF InData(p) /\ ~dirExists THEN Absent ELSE OtherFile
    /\ \A p \in OutputPaths : fs[p] \in OldFiles
    /\ \A p \in AllPaths : (InData(p) /\ ~dirExists) => fs[p] = Absent
    /\ pc = "get"
    /\ i = 1
    /\ data = NoData
    /\ obj = NoVal
    /\ run = 1
    /\ log = <<>>
    /\ fs0 = fs
    /\ prev = NoPrev

\* an uncaught exception: the interpreter prints the traceback and exits with status 1
Raise(what) ==
    /\ pc' = "failed"
    /\ log' = Append(log, Event("raise", what))

\* requests.get(url): the response, whatever its status; raises when none arrives
get(url) == remote[url]

\* line 7 inside a retry loop: a request that raises is issued again
Get_retry ==
    /\ pc = "get"
    /\ log' = Append(log, Event("get", UrlOf(filename)))
    /\ LET r == get(UrlOf(filename)) IN
       IF r.kind = "ConnectionError"
       THEN UNCHANGED <<pc, data>>
       ELSE data' = r /\ pc' = "loads"
    /\ UNCHANGED <<filenames, remote, dirExists, unwritable, fs, i, obj, run, fs0, prev>>

\* line 7: data = requests.get(f'...{filename}.geojson')
Get ==
    /\ pc = "get"
    /\ LET r == get(UrlOf(filename)) IN
       IF r.kind = "ConnectionError"
       THEN /\ pc' = "failed"
            /\ log' = log \o <<Event("get", UrlOf(filename)), Event("raise", "get")>>
            /\ UNCHANGED data
       ELSE /\ data' = r
            /\ pc' = "loads"
            /\ log' = Append(log, Event("get", UrlOf(filename)))
    /\ UNCHANGED <<filenames, remote, dirExists, unwritable, fs, i, obj, run, fs0, prev>>

\* line 8, first half: json.loads(data.text)
Loads ==
    /\ pc = "loads"
    /\ LET r == loads(data.text) IN
       IF r.ok
       THEN /\ obj' = r.v
            /\ pc' = "write"
            /\ log' = Append(log, Event("loads", filename))
       ELSE /\ Raise("loads")
            /\ UNCHANGED obj
    /\ UNCHANGED <<filenames, remote, dirExists, unwritable, fs, i, data, run, fs0, prev>>

\* open after mkdir(parents=True, exist_ok=True): a missing directory is no obstacle
CanOpen_mkdir(path) == path \notin unwritable

\* open(path, 'w') succeeds: the parent directory exists and the path may be written
CanOpen(path) == (InData(path) => dirExists) /\ path \notin unwritable

\* the file opened for writing and closed with nothing written
write_text_truncate(files, path, text) == [files EXCEPT ![path] = File(<<>>)]

\* the file opened in append mode
write_text_append(files, path, text) == [files EXCEPT ![path] = File(files[path].text \o text)]

\* Path.write_text: the file is created or truncated and holds exactly text
write_text(files, path, text) == [files EXCEPT ![path] = File(text)]

\* line 8, second half: Path(f'data/{filename}.json').write_text(json.dumps(obj, indent=2), 'utf-8')
\* and the for loop's step
Write ==
    /\ pc = "write"
    /\ LET path == PathOf(filename)
           text == dumps(obj) IN
       IF CanOpen(path)
       THEN /\ fs' = write_text(fs, path, text)
            /\ log' = Append(log, Event("write", path))
            /\ IF i < Len(filenames)
               THEN i' = i + 1 /\ pc' = "get"
               ELSE i' = i /\ pc' = "done"
       ELSE /\ Raise("write")
            /\ UNCHANGED <<fs, i>>
    /\ UNCHANGED <<filenames, remote, dirExists, unwritable, data, obj, run, fs0, prev>>

Terminated == pc \in {"done", "failed"}

\* the script is invoked again after the previous invocation has exited
Start ==
    /\ Terminated
    /\ run < MaxRuns
    /\ run' = run + 1
    /\ pc' = "get"
    /\ i' = 1
    /\ data' = NoData
    /\ obj' = NoVal
    /\ log' = <<>>
    /\ fs0' = fs
    /\ prev' = IF pc = "done" THEN [ok |-> TRUE, changed |-> FALSE, fs |-> fs] ELSE NoPrev
    /\ UNCHANGED <<filenames, remote, dirExists, unwritable, fs>>

\* between two invocations the endpoint starts to serve something else
RemoteUpdate ==
    /\ pc = "get"
    /\ log = <<>>
    /\ run > 1
    /\ ~prev.changed
    /\ \E r \in [Urls -> Responses] :
          /\ r # remote
          /\ remote' = r
    /\ prev' = RemoteChanged
    /\ UNCHANGED <<filenames, dirExists, unwritable, fs, pc, i, data, obj, run, log, fs0>>

Next == Get \/ Loads \/ Write \/ Start \/ RemoteUpdate

Spec == Init /\ [][Next]_vars

(***************************************************************************)
(* Vocabulary of the properties                                            *)
(***************************************************************************)
F1 == Filenames[1]

F2 == Filenames[2]

Names == {F1, F2}

P1 == "data/ne_10m_admin_0_countries_lakes.json"

P2 == "data/ne_10m_admin_1_states_provinces.json"

\* the response of this invocation's GET for name f (the endpoint is fixed while it runs)
Returned(f) == remote[UrlOf(f)]

\* the text this invocation writes for a body
Converted(text) == dumps(loads(text).v)

Happened(op, arg) == \E k \in 1..Len(log) : log[k] = Event(op, arg)

Count(op, arg) == Cardinality({k \in 1..Len(log) : log[k] = Event(op, arg)})

IsRaise(e) == e.op = "raise"

LastRaised(what) == log # <<>> /\ log[Len(log)] = Event("raise", what)

\* the steps of an invocation in which nothing fails
FullLog ==
    << Event("get", UrlOf(F1)), Event("loads", F1), Event("write", PathOf(F1)),
       Event("get", UrlOf(F2)), Event("loads", F2), Event("write", PathOf(F2)) >>

\* log without a final raise
Steps == IF log # <<>> /\ IsRaise(log[Len(log)]) THEN SubSeq(log, 1, Len(log) - 1) ELSE log

(***************************************************************************)
(* C1: after an invocation that completes without error, each name's file  *)
(* exists and holds a JSON document equal in value to the JSON document    *)
(* the endpoint returned for that name, and not the other name's document. *)
(***************************************************************************)
C1_FilesHoldReturnedDocuments ==
    pc = "done" =>
        \A f \in Names :
            (\A g \in Names : Returned(g).status_code = 200 /\ IsJSON(Returned(g).text)) =>
                /\ fs[PathOf(f)].exists
                /\ IsJSON(fs[PathOf(f)].text)
                /\ JSONValue(fs[PathOf(f)].text) = JSONValue(Returned(f).text)
                /\ \A g \in Names \ {f} :
                      (IsJSON(Returned(g).text)
                         /\ JSONValue(Returned(g).text) # JSONValue(Returned(f).text))
                      => JSONValue(fs[PathOf(f)].text) # JSONValue(Returned(g).text)

(***************************************************************************)
(* C2: a GET that fails at the network level or returns a non-success      *)
(* status is fatal whatever the body: the invocation never completes       *)
(* successfully.                                                           *)
(***************************************************************************)
C2_ErrorStatusIsFatal ==
    \A f \in Names :
        (Happened("get", UrlOf(f)) /\ Returned(f).status_code # 200) =>
            /\ Count("get", UrlOf(f)) = 1
            /\ ~Happened("write", PathOf(f))
            /\ pc # "done"

(***************************************************************************)
(* C3: a body that is not JSON is fatal: it is not parsed, the invocation  *)
(* does not complete, and that name's file stays as it was.                *)
(***************************************************************************)
C3_NonJsonBodyIsFatal ==
    \A f \in Names :
        (Returned(f).kind = "Response" /\ ~IsJSON(Returned(f).text)) =>
            /\ ~Happened("loads", f)
            /\ pc # "done"
            /\ fs[PathOf(f)] = fs0[PathOf(f)]

(***************************************************************************)
(* C4: when the second name fails at any stage, the first name's file      *)
(* holds what this invocation wrote from the first name's response.        *)
(***************************************************************************)
C4_FirstFileKept ==
    (pc = "failed" /\ i = 2) => fs[PathOf(F1)] = File(Converted(Returned(F1).text))

C4_Witness ==
    /\ pc = "failed"
    /\ i = 2
    /\ LastRaised("write")
    /\ fs0[PathOf(F1)].exists
    /\ fs[PathOf(F1)] # fs0[PathOf(F1)]

(***************************************************************************)
(* C5: without data/ the invocation never completes, no output file        *)
(* exists, the second name is never fetched, and when the first name's GET *)
(* and parse succeed the failure is the first name's write.                *)
(***************************************************************************)
C5_MissingDirFails ==
    ~dirExists =>
        /\ pc # "done"
        /\ \A p \in OutputPaths : ~fs[p].exists
        /\ ~Happened("get", UrlOf(F2))
        /\ i = 1
        /\ (Happened("loads", F1) /\ Terminated) => LastRaised("write")

C5_Witness == ~dirExists /\ pc = "failed" /\ LastRaised("write")

(***************************************************************************)
(* C6: an invocation that follows a successful one, with the endpoint      *)
(* unchanged, completes without error and leaves every file as the         *)
(* previous invocation left it, whatever the files held before.            *)
(***************************************************************************)
C6_OverwriteIdempotent ==
    (prev.ok /\ Terminated) => (pc = "done" /\ fs = prev.fs)

C6_Witness ==
    /\ prev.ok
    /\ pc = "done"
    /\ fs[PathOf(F1)].text # <<>>
    /\ fs[PathOf(F1)] # fs[PathOf(F2)]

(***************************************************************************)
(* C7: every file the invocation has written is a fixed point of           *)
(* json.loads followed by json.dumps(indent=2).                            *)
(***************************************************************************)
C7_RoundTrip ==
    \A p \in AllPaths :
        Happened("write", p) =>
            /\ loads(fs[p].text).ok
            /\ dumps(loads(fs[p].text).v) = fs[p].text

C7_Witness ==
    /\ Happened("write", PathOf(F1))
    /\ fs[PathOf(F1)].text # Returned(F1).text
    /\ Len(fs[PathOf(F1)].text) > Len(Returned(F1).text)

(***************************************************************************)
(* C8: the steps of an invocation are a prefix of get, parse, write for    *)
(* the first name and then get, parse, write for the second, and a step    *)
(* that raises is the last one.                                            *)
(***************************************************************************)
C8_Sequential ==
    /\ Len(Steps) <= Len(FullLog)
    /\ Steps = SubSeq(FullLog, 1, Len(Steps))
    /\ (pc = "done") = (Steps = FullLog /\ Steps = log)

C8_Witness == pc = "done" /\ log = FullLog

(***************************************************************************)
(* C9: each URL is requested at most once and each file written at most    *)
(* once per invocation; nothing follows a failure; every change to a file  *)
(* is a logged write; a failure on the first name leaves the second name   *)
(* unfetched and its file as it was.                                       *)
(***************************************************************************)
C9_FailFast ==
    /\ \A u \in Urls : Count("get", u) <= 1
    /\ \A p \in AllPaths : Count("write", p) <= 1
    /\ \A k \in 1..Len(log) : IsRaise(log[k]) => (k = Len(log) /\ pc = "failed")
    /\ pc = "failed" => (log # <<>> /\ IsRaise(log[Len(log)]))
    /\ \A p \in AllPaths : fs[p] # fs0[p] => Happened("write", p)
    /\ (pc = "failed" /\ i = 1) =>
          (~Happened("get", UrlOf(F2)) /\ fs[PathOf(F2)] = fs0[PathOf(F2)])

C9_Witness ==
    /\ pc = "failed"
    /\ i = 1
    /\ LastRaised("get")
    /\ Returned(F2).kind = "Response"
    /\ loads(Returned(F2).text).ok

(***************************************************************************)
(* C10: an invocation changes no path but the two output paths, leaves the *)
(* list of names alone, and has written the second file only if it has     *)
(* written the first.                                                      *)
(***************************************************************************)
C10_Frame ==
    /\ filenames = Filenames
    /\ \A p \in AllPaths \ OutputPaths : fs[p] = fs0[p]
    /\ \A k \in 1..Len(log) : log[k].op = "write" => log[k].arg \in OutputPaths
    /\ Happened("write", P2) => Happened("write", P1)
    /\ fs[P2] # fs0[P2] => Happened("write", P1)

C10_Witness == pc = "done" /\ fs[P2] # fs0[P2] /\ fs[P1] # fs0[P1]

====
